---- MODULE Spec2Model ----
(***************************************************************************)
(* A model of scalpl.py: the path parser (split_indexes, split_path), the  *)
(* tree traversals (traverse, Cut._traverse, _traverse_list) and the Cut   *)
(* operations built on them.                                               *)
(*                                                                         *)
(* Python strings are sequences of one-character strings.  A tree node is  *)
(* a record [kind, d, l, s, v]: a dict (d: function from keys to nodes), a *)
(* list (l: sequence of nodes), a str (s), an int (v) or NoneV.  A key or   *)
(* step is a record [t, s, i]: a string key (t = "k") or an integer        *)
(* (t = "i").  An exception is a record [kind, ctor, key, hasPath, path]:  *)
(* its Python class, the function that built it, and the key and path its  *)
(* message contains.                                                       *)
(***************************************************************************)
EXTENDS Integers, Sequences, FiniteSets, TLC

VARIABLES data, prev, op, path, sep, dflt, result, nops

vars == <<data, prev, op, path, sep, dflt, result, nops>>

(***************************************************************************)
(* Bounds                                                                  *)
(***************************************************************************)
MaxLen == 5

MaxOps == 2

Chars == {"a", ".", "[", "]", "1", "-"}

Seps == {<<".">>, <<"-">>}

Strings == UNION {[1..n -> Chars] : n \in 0..MaxLen}

(***************************************************************************)
(* Strings                                                                 *)
(***************************************************************************)
\* F applied to the value of x: an assignment `v = x` followed by the code
\* that uses v
Bind(x, F(_)) == CHOOSE y \in {F(v) : v \in {x}} : TRUE

DigitVal(c) ==
  CASE c = "0" -> 0 [] c = "1" -> 1 [] c = "2" -> 2 [] c = "3" -> 3
    [] c = "4" -> 4 [] c = "5" -> 5 [] c = "6" -> 6 [] c = "7" -> 7
    [] c = "8" -> 8 [] c = "9" -> 9

IsDigit(c) == c \in {"0", "1", "2", "3", "4", "5", "6", "7", "8", "9"}

HasChar(s, c) == \E i \in 1..Len(s) : s[i] = c

\* s[:-1]
DropLast(s) == IF s = <<>> THEN <<>> ELSE SubSeq(s, 1, Len(s) - 1)

\* s.startswith(t)
StartsWith(s, t) == Len(t) <= Len(s) /\ SubSeq(s, 1, Len(t)) = t

RECURSIVE DecValue(_)
DecValue(ds) ==
  IF ds = <<>> THEN 0
  ELSE 10 * DecValue(DropLast(ds)) + DigitVal(ds[Len(ds)])

\* the strings int() accepts, over the characters of the model: an optional
\* sign followed by one or more digits
IsInt(s) ==
  LET ds == IF s # <<>> /\ s[1] = "-" THEN Tail(s) ELSE s
  IN ds # <<>> /\ \A i \in 1..Len(ds) : IsDigit(ds[i])

IntVal(s) ==
  IF s[1] = "-" THEN 0 - DecValue(Tail(s)) ELSE DecValue(s)

\* the first place where sp occurs in s, or 0
Find(s, sp) ==
  IF \E i \in 1..Len(s) : StartsWith(SubSeq(s, i, Len(s)), sp)
  THEN CHOOSE i \in 1..Len(s) :
         /\ StartsWith(SubSeq(s, i, Len(s)), sp)
         /\ \A j \in 1..(i - 1) : ~StartsWith(SubSeq(s, j, Len(s)), sp)
  ELSE 0

\* str.split(sp) for a non-empty separator sp
RECURSIVE Split(_, _)
Split(s, sp) ==
  Bind(Find(s, sp), LAMBDA i :
    IF i = 0 THEN <<s>>
    ELSE Bind(SubSeq(s, i + Len(sp), Len(s)), LAMBDA rest :
           <<SubSeq(s, 1, i - 1)>> \o Split(rest, sp)))

(***************************************************************************)
(* Keys, exceptions, results                                               *)
(***************************************************************************)
K(name) == [t |-> "k", s |-> name, i |-> 0]

I(n) == [t |-> "i", s |-> <<>>, i |-> n]

NoStep == [t |-> "none", s |-> <<>>, i |-> 0]

Exc(kind, ctor, key, hasPath, p) ==
  [kind |-> kind, ctor |-> ctor, key |-> key, hasPath |-> hasPath, path |-> p]

NoErr == Exc("none", "none", NoStep, FALSE, <<>>)

key_error(failing_key, original_path) ==
  Exc("KeyError", "key_error", failing_key, TRUE, original_path)

index_error(failing_key, original_path) ==
  Exc("IndexError", "index_error", failing_key, TRUE, original_path)

type_error(failing_key, original_path) ==
  Exc("TypeError", "type_error", failing_key, TRUE, original_path)

missing_brackets_error(key) ==
  Exc("ValueError", "missing_brackets_error", K(key), FALSE, <<>>)

index_must_be_integer_error(index, p) ==
  Exc("ValueError", "index_must_be_integer_error", K(index), TRUE, p)

\* exceptions raised by the interpreter itself
RawKeyError(key) == Exc("KeyError", "raw", key, FALSE, <<>>)

RawIndexError == Exc("IndexError", "raw", NoStep, FALSE, <<>>)

RawTypeError == Exc("TypeError", "raw", NoStep, FALSE, <<>>)

RawAttributeError == Exc("AttributeError", "raw", NoStep, FALSE, <<>>)

RawValueError(literal) == Exc("ValueError", "raw", K(literal), FALSE, <<>>)

(***************************************************************************)
(* The path parser                                                         *)
(***************************************************************************)
POk(steps) == [ok |-> TRUE, steps |-> steps, err |-> NoErr]

PErr(e) == [ok |-> FALSE, steps |-> <<>>, err |-> e]

\* the loop of split_indexes and its except clause
RECURSIVE IndexLoop(_, _)
IndexLoop(str_indexes, seg) ==
  IF str_indexes = <<>> THEN POk(<<>>)
  ELSE Bind(DropLast(Head(str_indexes)), LAMBDA index :
         IF IsInt(index)
         THEN Bind(IndexLoop(Tail(str_indexes), seg), LAMBDA rest :
                IF rest.ok THEN POk(<<I(IntVal(index))>> \o rest.steps)
                ELSE rest)
         ELSE IF index # <<>> /\ ~HasChar(index, "]")
              THEN PErr(index_must_be_integer_error(index, seg))
              ELSE PErr(missing_brackets_error(seg)))

split_indexes(seg) ==
  Bind(Split(seg, <<"[">>), LAMBDA parts :
    IF Tail(parts) = <<>> THEN POk(<<K(Head(parts))>>)
    ELSE Bind(IndexLoop(Tail(parts), seg), LAMBDA r :
           IF r.ok THEN POk(<<K(Head(parts))>> \o r.steps) ELSE r))

\* the loop of split_path over keys
RECURSIVE ExtendAll(_)
ExtendAll(keys) ==
  IF keys = <<>> THEN POk(<<>>)
  ELSE Bind(split_indexes(Head(keys)), LAMBDA key_and_indexes :
         IF ~key_and_indexes.ok THEN key_and_indexes
         ELSE Bind(ExtendAll(Tail(keys)), LAMBDA rest :
                IF rest.ok THEN POk(key_and_indexes.steps \o rest.steps)
                ELSE rest))

\* a mutant: empty segments are skipped
split_path_skip_empty(p, key_separator) ==
  Bind(SelectSeq(Split(p, key_separator), LAMBDA k : k # <<>>), LAMBDA keys :
    ExtendAll(keys))

split_path(p, key_separator) ==
  Bind(Split(p, key_separator), LAMBDA keys : ExtendAll(keys))

(***************************************************************************)
(* Tree nodes and the interpreter's container operations                   *)
(***************************************************************************)
EmptyMap == [k \in {} |-> 0]

Node(kind, d, l, s, v) == [kind |-> kind, d |-> d, l |-> l, s |-> s, v |-> v]

DictV(d) == Node("dict", d, <<>>, <<>>, 0)

ListV(l) == Node("list", EmptyMap, l, <<>>, 0)

StrV(s) == Node("str", EmptyMap, <<>>, s, 0)

IntV(v) == Node("int", EmptyMap, <<>>, <<>>, v)

BoolV(b) == Node("bool", EmptyMap, <<>>, <<>>, IF b THEN 1 ELSE 0)

NoneV == Node("none", EmptyMap, <<>>, <<>>, 0)

\* a sequence index i is valid for length n when -n <= i < n
InRange(i, n) == 0 - n <= i /\ i < n

\* the position a valid index denotes, counted from 1
At(i, n) == IF i < 0 THEN n + i + 1 ELSE i + 1

VOk(val) == [ok |-> TRUE, val |-> val, err |-> NoErr]

VErr(e) == [ok |-> FALSE, val |-> NoneV, err |-> e]

\* node[key]
Subscript(node, key) ==
  CASE node.kind = "dict" ->
         IF key \in DOMAIN node.d THEN VOk(node.d[key])
         ELSE VErr(RawKeyError(key))
    [] node.kind = "list" ->
         IF key.t # "i" THEN VErr(RawTypeError)
         ELSE IF InRange(key.i, Len(node.l))
              THEN VOk(node.l[At(key.i, Len(node.l))])
              ELSE VErr(RawIndexError)
    [] node.kind = "str" ->
         IF key.t # "i" THEN VErr(RawTypeError)
         ELSE IF InRange(key.i, Len(node.s))
              THEN VOk(StrV(<<node.s[At(key.i, Len(node.s))]>>))
              ELSE VErr(RawIndexError)
    [] OTHER -> VErr(RawTypeError)

\* the key under which node[key] is found, with a list index made absolute
Canon(node, key) ==
  IF node.kind = "list" THEN I(At(key.i, Len(node.l)) - 1)
  ELSE IF node.kind = "str" THEN I(At(key.i, Len(node.s)) - 1)
  ELSE key

MapPut(d, key, val) == [k \in DOMAIN d \cup {key} |-> IF k = key THEN val ELSE d[k]]

MapDel(d, key) == [k \in DOMAIN d \ {key} |-> d[k]]

SeqDel(l, n) == SubSeq(l, 1, n - 1) \o SubSeq(l, n + 1, Len(l))

\* a mutant: an assignment to a dict replaces the other entries
StoreClobber(node, key, val) ==
  CASE node.kind = "dict" -> VOk(DictV(MapPut(EmptyMap, key, val)))
    [] node.kind = "list" ->
         IF key.t # "i" THEN VErr(RawTypeError)
         ELSE IF InRange(key.i, Len(node.l))
              THEN VOk(ListV([node.l EXCEPT ![At(key.i, Len(node.l))] = val]))
              ELSE VErr(RawIndexError)
    [] OTHER -> VErr(RawTypeError)

\* node[key] = val; the result is the node after the assignment
Store(node, key, val) ==
  CASE node.kind = "dict" -> VOk(DictV(MapPut(node.d, key, val)))
    [] node.kind = "list" ->
         IF key.t # "i" THEN VErr(RawTypeError)
         ELSE IF InRange(key.i, Len(node.l))
              THEN VOk(ListV([node.l EXCEPT ![At(key.i, Len(node.l))] = val]))
              ELSE VErr(RawIndexError)
    [] OTHER -> VErr(RawTypeError)

\* del node[key]; the result is the node after the deletion
Delete(node, key) ==
  CASE node.kind = "dict" ->
         IF key \in DOMAIN node.d THEN VOk(DictV(MapDel(node.d, key)))
         ELSE VErr(RawKeyError(key))
    [] node.kind = "list" ->
         IF key.t # "i" THEN VErr(RawTypeError)
         ELSE IF InRange(key.i, Len(node.l))
              THEN VOk(ListV(SeqDel(node.l, At(key.i, Len(node.l)))))
              ELSE VErr(RawIndexError)
    [] OTHER -> VErr(RawTypeError)

\* node.pop(key): val is the popped value, node the container afterwards
PopOf(node, key) ==
  CASE node.kind = "dict" ->
         IF key \in DOMAIN node.d
         THEN [ok |-> TRUE, val |-> node.d[key], node |-> DictV(MapDel(node.d, key)), err |-> NoErr]
         ELSE [ok |-> FALSE, val |-> NoneV, node |-> node, err |-> RawKeyError(key)]
    [] node.kind = "list" ->
         IF key.t # "i"
         THEN [ok |-> FALSE, val |-> NoneV, node |-> node, err |-> RawTypeError]
         ELSE IF InRange(key.i, Len(node.l))
              THEN [ok |-> TRUE, val |-> node.l[At(key.i, Len(node.l))],
                    node |-> ListV(SeqDel(node.l, At(key.i, Len(node.l)))), err |-> NoErr]
              ELSE [ok |-> FALSE, val |-> NoneV, node |-> node, err |-> RawIndexError]
    [] OTHER -> [ok |-> FALSE, val |-> NoneV, node |-> node, err |-> RawAttributeError]

\* the node at a position (a sequence of absolute keys) of a tree
RECURSIVE NodeAt(_, _)
NodeAt(root, pos) ==
  IF pos = <<>> THEN root
  ELSE Bind(Subscript(root, Head(pos)).val, LAMBDA child : NodeAt(child, Tail(pos)))

\* the tree with the node at a position replaced: the effect, seen from the
\* root, of mutating the object at that position in place
RECURSIVE ReplaceAt(_, _, _)
ReplaceAt(root, pos, new) ==
  IF pos = <<>> THEN new
  ELSE Bind(Subscript(root, Head(pos)).val, LAMBDA old :
         Bind(ReplaceAt(old, Tail(pos), new), LAMBDA child :
           IF root.kind = "dict" THEN DictV(MapPut(root.d, Head(pos), child))
           ELSE ListV([root.l EXCEPT ![Head(pos).i + 1] = child])))

(***************************************************************************)
(* Traversals.  A traversal result holds the node reached (val), its       *)
(* position in the tree (pos) and, for the parent-returning traversals,    *)
(* the final key (key); on failure, the exception and the position reached *)
(* before the step that failed.                                            *)
(***************************************************************************)
TOk(val, pos, key) == [ok |-> TRUE, val |-> val, pos |-> pos, key |-> key, err |-> NoErr]

TErr(e, pos) == [ok |-> FALSE, val |-> NoneV, pos |-> pos, key |-> NoStep, err |-> e]

\* the position below pos that node[key] is found at
Below(pos, node, key) == pos \o <<Canon(node, key)>>

RECURSIVE traverse(_, _, _, _)
traverse(value, pos, keys, original_path) ==
  IF keys = <<>> THEN TOk(value, pos, NoStep)
  ELSE Bind(Subscript(value, Head(keys)), LAMBDA r :
         IF r.ok
         THEN Bind(Below(pos, value, Head(keys)), LAMBDA next :
                traverse(r.val, next, Tail(keys), original_path))
         ELSE IF r.err.kind = "TypeError"
              THEN TErr(Exc("TypeError", "traverse", Head(keys), TRUE, original_path), pos)
              ELSE TErr(r.err, pos))

\* the loop of _traverse_list over str_indexes[:-1]
RECURSIVE MiddleIndexes(_, _, _, _)
MiddleIndexes(parent, pos, str_indexes, original_path) ==
  IF str_indexes = <<>> THEN TOk(parent, pos, NoStep)
  ELSE Bind(DropLast(Head(str_indexes)), LAMBDA lit :
         IF ~IsInt(lit) THEN TErr(RawValueError(lit), pos)
         ELSE Bind(Subscript(parent, I(IntVal(lit))), LAMBDA r :
                IF r.ok
                THEN Bind(Below(pos, parent, I(IntVal(lit))), LAMBDA next :
                       MiddleIndexes(r.val, next, Tail(str_indexes), original_path))
                ELSE IF r.err.kind = "IndexError"
                     THEN TErr(index_error(I(IntVal(lit)), original_path), pos)
                     ELSE TErr(r.err, pos)))

\* _traverse_list once key.split("[") has given more than one part
TraverseIndexes(parent, pos, parts, original_path) ==
  Bind(Subscript(parent, K(Head(parts))), LAMBDA r :
    IF ~r.ok
    THEN IF r.err.kind = "KeyError"
         THEN TErr(key_error(K(Head(parts)), original_path), pos)
         ELSE IF r.err.kind = "TypeError"
              THEN TErr(type_error(K(Head(parts)), original_path), pos)
              ELSE TErr(r.err, pos)
    ELSE Bind(MiddleIndexes(r.val, Below(pos, parent, K(Head(parts))),
                            DropLast(Tail(parts)), original_path), LAMBDA m :
           Bind(DropLast(parts[Len(parts)]), LAMBDA last :
             IF ~m.ok THEN m
             ELSE IF IsInt(last) THEN TOk(m.val, m.pos, I(IntVal(last)))
                  ELSE TErr(index_error(K(last), original_path), m.pos))))

_traverse_list(parent, pos, seg, original_path) ==
  Bind(Split(seg, <<"[">>), LAMBDA parts :
    IF Tail(parts) = <<>> THEN TOk(parent, pos, K(Head(parts)))
    ELSE TraverseIndexes(parent, pos, parts, original_path))

\* the except clauses of Cut._traverse; sub_key is the loop variable's value
\* when the exception was raised
TraverseWrap(e, sub_key, original_path) ==
  IF e.kind = "KeyError" THEN key_error(sub_key, original_path)
  ELSE IF e.kind = "IndexError" THEN index_error(sub_key, original_path)
  ELSE IF e.kind = "TypeError" THEN key_error(sub_key, original_path)
  ELSE e

\* the loop of Cut._traverse over parent_keys
RECURSIVE TraverseLoop(_, _, _, _)
TraverseLoop(parent, pos, parent_keys, original_path) ==
  IF parent_keys = <<>> THEN TOk(parent, pos, NoStep)
  ELSE Bind(_traverse_list(parent, pos, Head(parent_keys), original_path), LAMBDA tl :
         IF ~tl.ok
         THEN TErr(TraverseWrap(tl.err, K(Head(parent_keys)), original_path), tl.pos)
         ELSE Bind(Subscript(tl.val, tl.key), LAMBDA r :
                IF ~r.ok
                THEN TErr(TraverseWrap(r.err, tl.key, original_path), tl.pos)
                ELSE Bind(Below(tl.pos, tl.val, tl.key), LAMBDA next :
                       TraverseLoop(r.val, next, Tail(parent_keys), original_path))))

_traverse(root, p, sp) ==
  Bind(Split(p, sp), LAMBDA segs :
    Bind(TraverseLoop(root, <<>>, DropLast(segs), p), LAMBDA loop :
      IF ~loop.ok THEN loop
      ELSE _traverse_list(loop.val, loop.pos, segs[Len(segs)], p)))

\* `*keys, last_key = split_path(path, self.sep)` followed by traverse(): the
\* parent-returning part of Cut.__getitem__ and Cut.__setitem__
ParentOf(root, p, sp) ==
  Bind(split_path(p, sp), LAMBDA parsed :
    IF ~parsed.ok THEN TErr(parsed.err, <<>>)
    ELSE Bind(traverse(root, <<>>, DropLast(parsed.steps), p), LAMBDA t :
           IF ~t.ok THEN t
           ELSE TOk(t.val, t.pos, parsed.steps[Len(parsed.steps)])))

(***************************************************************************)
(* The operations of Cut.  An outcome holds what the call returned (val)   *)
(* or raised (err) and the tree after the call.                            *)
(***************************************************************************)
Ret(val, tree) == [ok |-> TRUE, val |-> val, err |-> NoErr, tree |-> tree]

Raise(e, tree) == [ok |-> FALSE, val |-> NoneV, err |-> e, tree |-> tree]

\* `default is not None`
Given(default) == default # NoneV

\* the truth value of a default
Truthy(default) ==
  CASE default.kind = "none" -> FALSE
    [] default.kind \in {"int", "bool"} -> default.v # 0
    [] default.kind = "str" -> default.s # <<>>
    [] default.kind = "list" -> default.l # <<>>
    [] OTHER -> DOMAIN default.d # {}

\* the except clauses shared by __getitem__, __delitem__ and pop
Wrap(e, last_key, original_path) ==
  IF e.kind = "KeyError" THEN key_error(last_key, original_path)
  ELSE IF e.kind = "IndexError" THEN index_error(last_key, original_path)
  ELSE e

__getitem__(root, p, sp) ==
  Bind(ParentOf(root, p, sp), LAMBDA t :
    IF ~t.ok THEN Raise(t.err, root)
    ELSE Bind(Subscript(t.val, t.key), LAMBDA r :
           IF r.ok THEN Ret(r.val, root)
           ELSE Raise(Wrap(r.err, t.key, p), root)))

__contains__(root, p, sp) ==
  Bind(_traverse(root, p, sp), LAMBDA t :
    IF ~t.ok THEN Raise(t.err, root)
    ELSE Bind(Subscript(t.val, t.key), LAMBDA r :
           IF r.ok THEN Ret(BoolV(TRUE), root)
           ELSE IF r.err.kind \in {"IndexError", "KeyError"}
                THEN Ret(BoolV(FALSE), root)
                ELSE Raise(r.err, root)))

__delitem__(root, p, sp) ==
  Bind(_traverse(root, p, sp), LAMBDA t :
    IF ~t.ok THEN Raise(t.err, root)
    ELSE Bind(Delete(t.val, t.key), LAMBDA r :
           IF r.ok THEN Ret(NoneV, ReplaceAt(root, t.pos, r.val))
           ELSE Raise(Wrap(r.err, t.key, p), root)))

__setitem__(root, p, sp, value) ==
  Bind(ParentOf(root, p, sp), LAMBDA t :
    IF ~t.ok THEN Raise(t.err, root)
    ELSE Bind(Store(t.val, t.key, value), LAMBDA r :
           IF r.ok THEN Ret(NoneV, ReplaceAt(root, t.pos, r.val))
           ELSE IF r.err.kind = "IndexError"
                THEN Raise(index_error(t.key, p), root)
                ELSE Raise(r.err, root)))

\* a mutant: a falsy default counts as no default
get_truthy(root, p, sp, default) ==
  Bind(__getitem__(root, p, sp), LAMBDA r :
    IF r.ok THEN r
    ELSE IF r.err.kind \in {"KeyError", "IndexError"} /\ Truthy(default)
         THEN Ret(default, root)
         ELSE r)

get(root, p, sp, default) ==
  Bind(__getitem__(root, p, sp), LAMBDA r :
    IF r.ok THEN r
    ELSE IF r.err.kind \in {"KeyError", "IndexError"} /\ Given(default)
         THEN Ret(default, root)
         ELSE r)

pop(root, p, sp, default) ==
  Bind(_traverse(root, p, sp), LAMBDA t :
    IF ~t.ok
    THEN IF t.err.kind \in {"KeyError", "IndexError"} /\ Given(default)
         THEN Ret(default, root)
         ELSE Raise(t.err, root)
    ELSE Bind(PopOf(t.val, t.key), LAMBDA r :
           IF r.ok THEN Ret(r.val, ReplaceAt(root, t.pos, r.node))
           ELSE IF r.err.kind \in {"KeyError", "IndexError"}
                THEN IF Given(default) THEN Ret(default, root)
                     ELSE Raise(Wrap(r.err, t.key, p), root)
                ELSE Raise(r.err, root)))

\* the loop of setdefault over parent_keys; tree is the tree so far
SOk(tree, pos) == [ok |-> TRUE, tree |-> tree, pos |-> pos, err |-> NoErr]

SErr(e, tree) == [ok |-> FALSE, tree |-> tree, pos |-> <<>>, err |-> e]

\* `child = {}; parent[_key] = child`
WithChild(tree, tl) ==
  ReplaceAt(tree, tl.pos, Store(tl.val, tl.key, DictV(EmptyMap)).val)

RECURSIVE SetdefaultLoop(_, _, _, _)
SetdefaultLoop(tree, pos, parent_keys, original_path) ==
  IF parent_keys = <<>> THEN SOk(tree, pos)
  ELSE Bind(_traverse_list(NodeAt(tree, pos), pos, Head(parent_keys), original_path),
            LAMBDA tl :
         IF ~tl.ok THEN SErr(tl.err, tree)
         ELSE Bind(Subscript(tl.val, tl.key), LAMBDA r :
                IF r.ok
                THEN Bind(Below(tl.pos, tl.val, tl.key), LAMBDA next :
                       SetdefaultLoop(tree, next, Tail(parent_keys), original_path))
                ELSE IF r.err.kind = "KeyError"
                     THEN Bind(WithChild(tree, tl), LAMBDA grown :
                            Bind(tl.pos \o <<tl.key>>, LAMBDA next :
                              SetdefaultLoop(grown, next, Tail(parent_keys), original_path)))
                     ELSE IF r.err.kind = "IndexError"
                          THEN SErr(index_error(tl.key, original_path), tree)
                          ELSE SErr(r.err, tree)))

SetdefaultLast(tree, pos, last_key, original_path, default) ==
  Bind(_traverse_list(NodeAt(tree, pos), pos, last_key, original_path), LAMBDA tl :
    IF ~tl.ok THEN Raise(tl.err, tree)
    ELSE Bind(Subscript(tl.val, tl.key), LAMBDA r :
           IF r.ok THEN Ret(r.val, tree)
           ELSE IF r.err.kind = "KeyError"
                THEN Ret(default, ReplaceAt(tree, tl.pos, Store(tl.val, tl.key, default).val))
                ELSE IF r.err.kind = "IndexError"
                     THEN Raise(index_error(tl.key, original_path), tree)
                     ELSE Raise(r.err, tree)))

\* a mutant: the missing intermediate dicts are not created
setdefault_flat(root, p, sp, default) ==
  Bind(Split(p, sp), LAMBDA segs :
    SetdefaultLast(root, <<>>, segs[Len(segs)], p, default))

setdefault(root, p, sp, default) ==
  Bind(Split(p, sp), LAMBDA segs :
    Bind(SetdefaultLoop(root, <<>>, DropLast(segs), p), LAMBDA loop :
      IF ~loop.ok THEN Raise(loop.err, loop.tree)
      ELSE SetdefaultLast(loop.tree, loop.pos, segs[Len(segs)], p, default)))

\* the loop of update over the pairs <<key, value>>
RECURSIVE update(_, _, _)
update(root, pairs, sp) ==
  IF pairs = <<>> THEN Ret(NoneV, root)
  ELSE Bind(__setitem__(root, Head(pairs)[1], sp, Head(pairs)[2]), LAMBDA r :
         IF r.ok THEN update(r.tree, Tail(pairs), sp) ELSE r)

(***************************************************************************)
(* The state machine.  A Cut is built over a tree and called at most       *)
(* MaxOps times; each call records its name, its arguments, what it        *)
(* returned or raised, and the tree before and after it, until it returns  *)
(* to the caller: a Cut keeps nothing of a call but the tree.              *)
(***************************************************************************)
Paths ==
  { <<"a">>, <<"b">>, <<"a", ".", "b">>, <<"a", ".", "b", ".", "c">>,
    <<"b", ".", "a">>, <<"a", "[", "0", "]">>, <<"a", "[", "1", "]">>,
    <<"a", "[", "-", "1", "]">>, <<"a", "[", "x", "]">>, <<"a", "[", "0">>,
    <<"a", "[", "0", "0">>, <<"a", "[", "0", "]", ".", "b">>,
    <<"a", "[", "1", "]", ".", "b">>, <<"a", "[", "0", "]", "[", "0", "]">>,
    <<"a", "[", "x", "]", "[", "0", "]">>, <<"a", ".", "b", "[", "0", "]">>,
    <<"b", "[", "0", "]">>, <<"b", ".", "a", "[", "x", "]">>,
    <<"b", ".", "a", "[", "0", "]">> }

UpdatePaths ==
  { <<"b">>, <<"a", ".", "b">>, <<"a", "[", "1", "]">>,
    <<"a", "[", "-", "1", "]">> }

Vals == {NoneV, IntV(0), IntV(1)}

UpdateArgs ==
  {<<<<p, IntV(0)>>>> : p \in UpdatePaths}
    \cup {<<<<p, IntV(0)>>, <<q, IntV(1)>>>> : p \in UpdatePaths, q \in UpdatePaths}

Leaf == IntV(1)

\* {}, {"a": [{"b": 1}]}, {"a": {"b": 1}}, {"a": 1, "b": "xy"},
\* {"a": [[1, 0]], "b": {"a": [1]}}
InitTrees ==
  { DictV(EmptyMap),
    DictV(K(<<"a">>) :> ListV(<<DictV(K(<<"b">>) :> Leaf)>>)),
    DictV(K(<<"a">>) :> DictV(K(<<"b">>) :> Leaf)),
    DictV(K(<<"a">>) :> Leaf @@ K(<<"b">>) :> StrV(<<"x", "y">>)),
    DictV(K(<<"a">>) :> ListV(<<ListV(<<Leaf, IntV(0)>>)>>)
            @@ K(<<"b">>) :> DictV(K(<<"a">>) :> ListV(<<Leaf>>))) }

NoResult == [ok |-> TRUE, val |-> NoneV, err |-> NoErr, steps |-> <<>>]

Init ==
  /\ data \in InitTrees
  /\ prev = data
  /\ op = "idle"
  /\ path = <<>>
  /\ sep = <<".">>
  /\ dflt = NoneV
  /\ result = NoResult
  /\ nops = 0

\* the caller holds the Cut and may call it once more
Ready == op = "idle" /\ nops < MaxOps

\* a call of a Cut method with outcome r
Call(name, p, d, r) ==
  /\ nops' = nops + 1
  /\ op' = name
  /\ path' = p
  /\ dflt' = d
  /\ prev' = data
  /\ data' = r.tree
  /\ result' = [ok |-> r.ok, val |-> r.val, err |-> r.err, steps |-> <<>>]
  /\ UNCHANGED sep

GetItem ==
  /\ Ready
  /\ \E p \in Paths :
       \E r \in {__getitem__(data, p, sep)} : Call("__getitem__", p, NoneV, r)

Contains ==
  /\ Ready
  /\ \E p \in Paths :
       \E r \in {__contains__(data, p, sep)} : Call("__contains__", p, NoneV, r)

DelItem ==
  /\ Ready
  /\ \E p \in Paths :
       \E r \in {__delitem__(data, p, sep)} : Call("__delitem__", p, NoneV, r)

SetItem ==
  /\ Ready
  /\ \E p \in Paths, v \in Vals :
       \E r \in {__setitem__(data, p, sep, v)} : Call("__setitem__", p, v, r)

Get ==
  /\ Ready
  /\ \E p \in Paths, d \in Vals :
       \E r \in {get(data, p, sep, d)} : Call("get", p, d, r)

Pop ==
  /\ Ready
  /\ \E p \in Paths, d \in Vals :
       \E r \in {pop(data, p, sep, d)} : Call("pop", p, d, r)

SetDefault ==
  /\ Ready
  /\ \E p \in Paths, d \in Vals :
       \E r \in {setdefault(data, p, sep, d)} : Call("setdefault", p, d, r)

Update ==
  /\ Ready
  /\ \E pairs \in UpdateArgs :
       \E r \in {update(data, pairs, sep)} : Call("update", pairs[1][1], pairs[1][2], r)

\* the call returns to the caller
Return ==
  /\ op # "idle"
  /\ op' = "idle"
  /\ prev' = data
  /\ path' = <<>>
  /\ dflt' = NoneV
  /\ result' = NoResult
  /\ UNCHANGED <<data, sep, nops>>

Next ==
  \/ GetItem
  \/ Contains
  \/ DelItem
  \/ SetItem
  \/ Get
  \/ Pop
  \/ SetDefault
  \/ Update
  \/ Return

Spec == Init /\ [][Next]_vars

(***************************************************************************)
(* The parser alone: a path string and a separator are drawn, and          *)
(* split_path is applied to them.                                          *)
(***************************************************************************)
InitParse ==
  /\ data = DictV(EmptyMap)
  /\ prev = data
  /\ op = "init"
  /\ path \in Strings
  /\ sep \in Seps
  /\ dflt = NoneV
  /\ result = NoResult
  /\ nops = 0

SplitPath ==
  /\ op = "init"
  /\ op' = "split_path"
  /\ \E r \in {split_path(path, sep)} :
       result' = [ok |-> r.ok, val |-> NoneV, err |-> r.err, steps |-> r.steps]
  /\ UNCHANGED <<data, prev, path, sep, dflt, nops>>

NextParse == SplitPath

SpecParse == InitParse /\ [][NextParse]_vars

(***************************************************************************)
(* Properties of the parser                                                *)
(***************************************************************************)
\* the segments of a path, read off the positions of the separator character
CutsOf(p, c) == {i \in 1..Len(p) : p[i] = c}

NumSegments(p, c) == Cardinality(CutsOf(p, c)) + 1

NthCut(p, c, k) ==
  CHOOSE i \in CutsOf(p, c) : Cardinality({j \in CutsOf(p, c) : j < i}) = k - 1

Segment(p, c, k) ==
  LET from == IF k = 1 THEN 1 ELSE NthCut(p, c, k - 1) + 1
      to == IF k = NumSegments(p, c) THEN Len(p) ELSE NthCut(p, c, k) - 1
  IN SubSeq(p, from, to)

FirstAt(s, c) ==
  IF HasChar(s, c)
  THEN CHOOSE i \in 1..Len(s) : s[i] = c /\ \A j \in 1..(i - 1) : s[j] # c
  ELSE 0

\* the text of a segment before its first bracket
NameOf(seg) ==
  IF HasChar(seg, "[") THEN SubSeq(seg, 1, FirstAt(seg, "[") - 1) ELSE seg

\* an integer literal: digits, with an optional minus sign
IsLiteral(lit) ==
  \/ lit # <<>> /\ \A i \in 1..Len(lit) : IsDigit(lit[i])
  \/ Len(lit) > 1 /\ lit[1] = "-" /\ \A i \in 2..Len(lit) : IsDigit(lit[i])

LiteralValue(lit) ==
  IF lit[1] = "-" THEN 0 - DecValue(Tail(lit)) ELSE DecValue(lit)

\* the integers of a text of the form [i1]...[ik], scanned left to right
RECURSIVE Brackets(_)
Brackets(rest) ==
  IF rest = <<>> THEN [wf |-> TRUE, ints |-> <<>>]
  ELSE LET j == FirstAt(rest, "]")
           lit == SubSeq(rest, 2, j - 1)
       IN IF rest[1] # "[" \/ j = 0 \/ ~IsLiteral(lit)
          THEN [wf |-> FALSE, ints |-> <<>>]
          ELSE LET more == Brackets(SubSeq(rest, j + 1, Len(rest)))
               IN [wf |-> more.wf, ints |-> <<I(LiteralValue(lit))>> \o more.ints]

BracketsOf(seg) == Brackets(SubSeq(seg, Len(NameOf(seg)) + 1, Len(seg)))

\* the k-th run of steps that opens with a string key
KeyPositions(steps) == {i \in 1..Len(steps) : steps[i].t = "k"}

NthKey(steps, k) ==
  CHOOSE i \in KeyPositions(steps) :
    Cardinality({j \in KeyPositions(steps) : j < i}) = k - 1

Chunk(steps, k) ==
  LET from == NthKey(steps, k)
      to == IF k = Cardinality(KeyPositions(steps)) THEN Len(steps)
            ELSE NthKey(steps, k + 1) - 1
  IN SubSeq(steps, from, to)

BadBracket(p) ==
  \E i \in 1..Len(p) :
    /\ p[i] = "["
    /\ ~\E j \in (i + 2)..Len(p) :
          /\ p[j] = "]"
          /\ \A m \in (i + 1)..(j - 1) : IsDigit(p[m])

\* C2: split_path fails with ValueError, and returns no steps, for every path
\* in which some "[" is not closed by a "]" placed right after a
\* non-negative integer literal.
C2_MalformedPathRejected ==
  (op = "split_path" /\ BadBracket(path)) =>
    (~result.ok /\ result.err.kind = "ValueError")

(***************************************************************************)
(* Properties of the Cut operations                                        *)
(***************************************************************************)
\* the step application rule: the first step of a sequence that cannot be
\* applied, and why
RECURSIVE RuleWalk(_, _)
RuleWalk(node, steps) ==
  IF steps = <<>> THEN [kind |-> "ok", step |-> NoStep]
  ELSE LET st == Head(steps)
       IN IF st.t = "k"
          THEN IF node.kind # "dict" THEN [kind |-> "TypeMismatch", step |-> st]
               ELSE IF st \notin DOMAIN node.d THEN [kind |-> "MissingKey", step |-> st]
                    ELSE RuleWalk(node.d[st], Tail(steps))
          ELSE IF node.kind # "list" THEN [kind |-> "TypeMismatch", step |-> st]
               ELSE IF st.i < 0 \/ st.i >= Len(node.l)
                    THEN [kind |-> "IndexOutOfRange", step |-> st]
                    ELSE RuleWalk(node.l[st.i + 1], Tail(steps))

\* the rule's verdict on the path of the recorded call, on the tree before it
Verdict ==
  LET parsed == split_path(path, sep)
  IN IF parsed.ok THEN RuleWalk(prev, parsed.steps)
     ELSE [kind |-> "MalformedPath", step |-> NoStep]

\* C3: in Cut.__getitem__, a step whose access kind does not match the node
\* it is applied to (a string key on a list or a scalar, an integer index on
\* a dict or a scalar) always fails with TypeError: it never succeeds and is
\* never reported as KeyError or IndexError.
C3_MismatchIsTypeError ==
  (op = "__getitem__" /\ Verdict.kind = "TypeMismatch") =>
    (~result.ok /\ result.err.kind = "TypeError")

\* C4: every failure of Cut.__getitem__ carries the original full path and
\* the key or index that could not be applied, which is the first step the
\* step application rule rejects.
C4_FailureNamesPathAndKey ==
  (op = "__getitem__" /\ ~result.ok) =>
    /\ result.err.hasPath
    /\ result.err.path = path
    /\ result.err.key # NoStep
    /\ Verdict.kind \notin {"ok", "MalformedPath"} => result.err.key = Verdict.step

\* the position a path resolves to in a tree, when __getitem__ succeeds on it
PositionOf(tree, p) ==
  LET t == ParentOf(tree, p, sep)
  IN t.pos \o <<Canon(t.val, t.key)>>

\* the position a successful __setitem__ writes
WrittenPosition ==
  LET t == ParentOf(prev, path, sep)
  IN t.pos \o <<IF t.val.kind = "list" THEN Canon(t.val, t.key) ELSE t.key>>

IsPrefix(s, u) == Len(s) <= Len(u) /\ SubSeq(u, 1, Len(s)) = s

\* C5: after a successful Cut.__setitem__(path, v), Cut.__getitem__(path)
\* succeeds and returns v and `path in cut` is True; every other path that
\* resolved before the write to a node not under the written position still
\* resolves to the same node, and to the same value when the written
\* position is not inside that node.
C5_ReadAfterWrite ==
  (op = "__setitem__" /\ result.ok) =>
    /\ LET g == __getitem__(data, path, sep) IN g.ok /\ g.val = dflt
    /\ LET c == __contains__(data, path, sep) IN c.ok /\ c.val = BoolV(TRUE)
    /\ \A q \in Paths :
         LET before == __getitem__(prev, q, sep)
             after == __getitem__(data, q, sep)
         IN (before.ok /\ ~IsPrefix(WrittenPosition, PositionOf(prev, q))) =>
              /\ after.ok
              /\ PositionOf(data, q) = PositionOf(prev, q)
              /\ ~IsPrefix(PositionOf(prev, q), WrittenPosition) => after.val = before.val

C5_Witness ==
  /\ op = "__setitem__"
  /\ result.ok
  /\ data # prev
  /\ dflt = IntV(0)
  /\ path = <<"a", "[", "0", "]", "[", "0", "]">>
  /\ __getitem__(prev, <<"b", ".", "a", "[", "0", "]">>, sep).ok
  /\ __getitem__(data, <<"b", ".", "a", "[", "0", "]">>, sep).val = IntV(1)
  /\ __getitem__(data, path, sep).val = IntV(0)

\* the nodes met along the keys are dicts, up to the first absent key
RECURSIVE DictsAlong(_, _)
DictsAlong(node, keys) ==
  /\ node.kind = "dict"
  /\ \/ keys = <<>>
     \/ Head(keys) \notin DOMAIN node.d
     \/ DictsAlong(node.d[Head(keys)], Tail(keys))

\* the keys all name present fields of nested dicts
RECURSIVE Present(_, _)
Present(node, keys) ==
  \/ keys = <<>>
  \/ /\ node.kind = "dict"
     /\ Head(keys) \in DOMAIN node.d
     /\ Present(node.d[Head(keys)], Tail(keys))

\* the dict with val stored under the keys, an empty dict standing for every
\* absent intermediate field
RECURSIVE Grafted(_, _, _)
Grafted(node, keys, val) ==
  IF Len(keys) = 1 THEN DictV(MapPut(node.d, keys[1], val))
  ELSE LET child == IF keys[1] \in DOMAIN node.d THEN node.d[keys[1]]
                    ELSE DictV(EmptyMap)
       IN DictV(MapPut(node.d, keys[1], Grafted(child, Tail(keys), val)))

\* the segments of a bracket-free path, as string keys
KeysOf(p) == [k \in 1..NumSegments(p, sep[1]) |-> K(Segment(p, sep[1], k))]

RECURSIVE ListsNotLonger(_, _)
ListsNotLonger(old, new) ==
  CASE new.kind = "dict" /\ old.kind = "dict" ->
         \A k \in DOMAIN new.d \cap DOMAIN old.d : ListsNotLonger(old.d[k], new.d[k])
    [] new.kind = "list" /\ old.kind = "list" ->
         /\ Len(new.l) <= Len(old.l)
         /\ \A i \in 1..Len(new.l) : i <= Len(old.l) => ListsNotLonger(old.l[i], new.l[i])
    [] OTHER -> new.kind # "list"

\* C7: lists are never extended: after Cut.__setitem__, Cut.setdefault or
\* Cut.update no list is longer than before, and a __setitem__ or setdefault
\* whose path applies an index outside [0, len) to a list fails with
\* IndexError.
C7_ListsNeverExtended ==
  /\ op \in {"__setitem__", "setdefault", "update"} => ListsNotLonger(prev, data)
  /\ (op \in {"__setitem__", "setdefault"} /\ Verdict.kind = "IndexOutOfRange") =>
       (~result.ok /\ result.err.kind = "IndexError")

\* C8: on the tree and path of a call that uses Cut._traverse, Cut._traverse
\* and the traversal of Cut.__getitem__ either reach the same parent node with
\* the same final step, or fail with the same kind of failure at the same
\* step.
C8_SameParentTraversal ==
  op \in {"__contains__", "__delitem__", "pop"} =>
    LET g == ParentOf(prev, path, sep)
        t == _traverse(prev, path, sep)
    IN \/ g.ok /\ t.ok /\ g.pos = t.pos /\ g.key = t.key
       \/ ~g.ok /\ ~t.ok /\ g.err.kind = t.err.kind /\ g.pos = t.pos

\* the failure of the recorded get or pop when no default is supplied
Undefaulted ==
  IF op = "get" THEN __getitem__(prev, path, sep) ELSE pop(prev, path, sep, NoneV)

Soft == ~Undefaulted.ok /\ Undefaulted.err.kind \in {"KeyError", "IndexError"}

\* C9 as stated: when the lookup of Cut.get or Cut.pop fails with KeyError or
\* IndexError, a falsy default is treated as no default and the failure is
\* raised; the default is returned only when it is truthy.
C9_FalsyDefaultRaises ==
  (op \in {"get", "pop"} /\ Soft) =>
    IF Truthy(dflt) THEN result.ok /\ result.val = dflt
    ELSE ~result.ok /\ result.err = Undefaulted.err

\* C9 as amended: when the lookup of Cut.get or Cut.pop fails with KeyError
\* or IndexError, the default is returned whenever it is not None, falsy
\* defaults included, and the tree is unchanged; the failure is raised only
\* when the default is None.
C9_NoneIsNoDefault ==
  (op \in {"get", "pop"} /\ Soft) =>
    /\ data = prev
    /\ IF dflt # NoneV THEN result.ok /\ result.val = dflt
       ELSE ~result.ok /\ result.err = Undefaulted.err

C9_Witness ==
  /\ op = "get"
  /\ Soft
  /\ dflt = IntV(0)
  /\ result.ok
  /\ result.val = IntV(0)

\* C10: a call of __getitem__, __contains__, get, __setitem__, __delitem__,
\* pop or setdefault that fails leaves the tree as it was, and the reads
\* __getitem__, __contains__ and get never change the tree.
C10_NoPartialSuccess ==
  /\ (/\ op \in {"__getitem__", "__contains__", "get", "__setitem__",
                 "__delitem__", "pop", "setdefault"}
      /\ ~result.ok) => data = prev
  /\ op \in {"__getitem__", "__contains__", "get"} => data = prev

====
